---- MODULE Spec2Model ----
(***************************************************************************)
(* Model of the barragoon rules engine (binary cubekill): geometry,        *)
(* strides and steps, barrier rules, the board with its FEN codec, the     *)
(* move generator valid_moves and the move applier make_move, and the      *)
(* UBI command loop that drives it.                                        *)
(***************************************************************************)
EXTENDS Integers, Sequences, FiniteSets, TLC

VARIABLES
    board,          \* Game.board: [rank -> [file -> SquareContent]], 0-based
    current_player, \* Game.current_player
    setup,          \* which construction produced the game
    last_move,      \* argument of the latest make_move call
    result,         \* result of the latest make_move call: "None", "Ok", "Err"
    n_calls,        \* number of make_move calls so far
    moves,          \* the Vec the latest evaluation of valid_moves() returned
    fen,            \* characters the decoder has consumed so far
    fen_state,      \* locals of from_fen: board, row_ptr, col_ptr, status
    fen_items,      \* number of consumed characters other than '7' and '/'
    query,          \* the latest call of a rule function: its name and arguments
    answer,         \* the value that call returned
    ubi_state,      \* UbiHandler.state
    ubi_running,    \* run_loop is still reading lines
    ubi_input,      \* the latest line run_loop has read: command and arguments
    ubi_output,     \* the lines run_loop has written so far
    n_commands      \* number of lines read so far

vars == <<board, current_player, setup, last_move, result, n_calls, moves, fen, fen_state, fen_items,
          query, answer, ubi_state, ubi_running, ubi_input, ubi_output, n_commands>>

game_vars == <<board, current_player, setup, last_move, result, n_calls, moves>>

fen_vars == <<fen, fen_state, fen_items>>

rule_vars == <<query, answer>>

ubi_vars == <<ubi_state, ubi_running, ubi_input, ubi_output, n_commands>>

---------------------------------------------------------------------------
(* Bounds of the model *)

\* make_move calls per behaviour
MaxCalls == 1

\* characters other than '7' and '/' fed to the decoder
MaxFenItems == 3

\* lines fed to the command loop
MaxCommands == 3

---------------------------------------------------------------------------
(* Geometry: navigation.rs *)

BOARD_WIDTH == 7

BOARD_HEIGHT == 9

BOARD_HEIGHT_SIGNED == BOARD_HEIGHT

\* Orientation::iter() visits the variants in declaration order
Orientations == <<"North", "West", "South", "East">>

Direction == {"North", "West", "South", "East"}

turn_left(d) ==
    CASE d = "North" -> "West"
      [] d = "West" -> "South"
      [] d = "South" -> "East"
      [] d = "East" -> "North"

turn_right(d) ==
    CASE d = "North" -> "East"
      [] d = "East" -> "South"
      [] d = "South" -> "West"
      [] d = "West" -> "North"

PositionDelta(rank_delta, file_delta) == [rank_delta |-> rank_delta, file_delta |-> file_delta]

as_delta(d) ==
    CASE d = "North" -> PositionDelta(1, 0)
      [] d = "East" -> PositionDelta(0, 1)
      [] d = "South" -> PositionDelta(-1, 0)
      [] d = "West" -> PositionDelta(0, -1)

DeltaAdd(a, b) == PositionDelta(a.rank_delta + b.rank_delta, a.file_delta + b.file_delta)

DeltaMul(a, k) == PositionDelta(a.rank_delta * k, a.file_delta * k)

Coordinate(rank, file) == [rank |-> rank, file |-> file]

\* variant: the cast drops the sign
AsU8Magnitude(x) == IF x < 0 THEN -x ELSE x

\* the cast "as u8" of a signed 8-bit value
AsU8(x) == x % 256

CoordAdd(c, d) == Coordinate(AsU8(c.rank + d.rank_delta), AsU8(c.file + d.file_delta))

---------------------------------------------------------------------------
(* Strides and steps: tiles.rs *)

TileType == {"Two", "Three", "Four"}

full_stride_length(tt) ==
    CASE tt = "Two" -> 2
      [] tt = "Three" -> 3
      [] tt = "Four" -> 4

\* variant: the short strides are as long as the full ones
short_stride_length_full(tt) ==
    CASE tt = "Two" -> 2
      [] tt = "Three" -> 3
      [] tt = "Four" -> 4

short_stride_length(tt) ==
    CASE tt = "Two" -> 1
      [] tt = "Three" -> 2
      [] tt = "Four" -> 3

new_bend(start_direction, start_length, bend_direction, bend_length, is_full_stride) ==
    [start_direction |-> start_direction, start_length |-> start_length,
     bend_direction |-> bend_direction, bend_length |-> bend_length,
     is_full_stride |-> is_full_stride]

new_straight(start_direction, start_length, is_full_stride) ==
    [start_direction |-> start_direction, start_length |-> start_length,
     bend_direction |-> start_direction, bend_length |-> 0,
     is_full_stride |-> is_full_stride]

\* the strides pushed for one start direction, bend_point running over 0..stride_length-1
\* variant: a bend point yields the bend to the left only
RECURSIVE BendPointsLeftOnly(_, _, _, _)
BendPointsLeftOnly(start_direction, bend_point, stride_length, are_full_strides) ==
    IF bend_point >= stride_length THEN <<>>
    ELSE (IF bend_point # 0
          THEN <<new_bend(start_direction, bend_point, turn_left(start_direction),
                          stride_length - bend_point, are_full_strides)>>
          ELSE <<new_straight(start_direction, stride_length, are_full_strides)>>)
         \o BendPointsLeftOnly(start_direction, bend_point + 1, stride_length, are_full_strides)

RECURSIVE BendPoints(_, _, _, _)
BendPoints(start_direction, bend_point, stride_length, are_full_strides) ==
    IF bend_point >= stride_length THEN <<>>
    ELSE (IF bend_point # 0
          THEN <<new_bend(start_direction, bend_point, turn_left(start_direction),
                          stride_length - bend_point, are_full_strides),
                 new_bend(start_direction, bend_point, turn_right(start_direction),
                          stride_length - bend_point, are_full_strides)>>
          ELSE <<new_straight(start_direction, stride_length, are_full_strides)>>)
         \o BendPoints(start_direction, bend_point + 1, stride_length, are_full_strides)

\* variant: every stride is one cell longer
make_strides_longer(tt, are_full_strides) ==
    LET stride_length == (IF are_full_strides THEN full_stride_length(tt) ELSE short_stride_length(tt)) + 1
    IN BendPoints(Orientations[1], 0, stride_length, are_full_strides)
       \o BendPoints(Orientations[2], 0, stride_length, are_full_strides)
       \o BendPoints(Orientations[3], 0, stride_length, are_full_strides)
       \o BendPoints(Orientations[4], 0, stride_length, are_full_strides)

make_strides(tt, are_full_strides) ==
    LET stride_length == IF are_full_strides THEN full_stride_length(tt) ELSE short_stride_length(tt)
    IN BendPoints(Orientations[1], 0, stride_length, are_full_strides)
       \o BendPoints(Orientations[2], 0, stride_length, are_full_strides)
       \o BendPoints(Orientations[3], 0, stride_length, are_full_strides)
       \o BendPoints(Orientations[4], 0, stride_length, are_full_strides)

full_strides(tt) == make_strides(tt, TRUE)

\* variant: a tile has no short strides
no_short_strides(tt) == <<>>

short_strides(tt) == make_strides(tt, FALSE)

all_strides(tt) == full_strides(tt) \o short_strides(tt)

\* variant: the short strides capture too
can_capture_always(stride) == TRUE

can_capture(stride) == stride.is_full_stride

\* variant: the part after the bend is left out
full_delta_start_only(stride) == DeltaMul(as_delta(stride.start_direction), stride.start_length)

full_delta(stride) ==
    DeltaAdd(DeltaMul(as_delta(stride.start_direction), stride.start_length),
             DeltaMul(as_delta(stride.bend_direction), stride.bend_length))

\* variant: the iterator ends one step early
RECURSIVE StrideIteratorNextShort(_, _, _, _)
StrideIteratorNextShort(stride, index, last_direction, position_delta) ==
    IF index >= stride.start_length + stride.bend_length - 1 THEN <<>>
    ELSE LET leave_direction ==
                 IF index < stride.start_length - 1 THEN stride.start_direction
                 ELSE IF index < stride.start_length + stride.bend_length - 1 THEN stride.bend_direction
                 ELSE "None"
             new_delta == DeltaAdd(position_delta, as_delta(last_direction))
             step == [enter_direction |-> last_direction,
                      leave_direction |-> leave_direction,
                      position_delta |-> new_delta]
         IN <<step>> \o StrideIteratorNextShort(stride, index + 1,
                                                IF leave_direction # "None" THEN leave_direction
                                                ELSE last_direction,
                                                new_delta)

\* variant: last_direction is not updated at the bend
RECURSIVE StrideIteratorNextNoTurn(_, _, _, _)
StrideIteratorNextNoTurn(stride, index, last_direction, position_delta) ==
    IF index >= stride.start_length + stride.bend_length THEN <<>>
    ELSE LET leave_direction ==
                 IF index < stride.start_length - 1 THEN stride.start_direction
                 ELSE IF index < stride.start_length + stride.bend_length - 1 THEN stride.bend_direction
                 ELSE "None"
             new_delta == DeltaAdd(position_delta, as_delta(last_direction))
             step == [enter_direction |-> last_direction,
                      leave_direction |-> leave_direction,
                      position_delta |-> new_delta]
         IN <<step>> \o StrideIteratorNextNoTurn(stride, index + 1, last_direction, new_delta)

\* StrideIterator::next, unfolded from the iterator state (index, last_direction, position_delta)
RECURSIVE StrideIteratorNext(_, _, _, _)
StrideIteratorNext(stride, index, last_direction, position_delta) ==
    IF index >= stride.start_length + stride.bend_length THEN <<>>
    ELSE LET leave_direction ==
                 IF index < stride.start_length - 1 THEN stride.start_direction
                 ELSE IF index < stride.start_length + stride.bend_length - 1 THEN stride.bend_direction
                 ELSE "None"
             new_delta == DeltaAdd(position_delta, as_delta(last_direction))
             step == [enter_direction |-> last_direction,
                      leave_direction |-> leave_direction,
                      position_delta |-> new_delta]
         IN <<step>> \o StrideIteratorNext(stride, index + 1,
                                           IF leave_direction # "None" THEN leave_direction ELSE last_direction,
                                           new_delta)

steps(stride) == StrideIteratorNext(stride, 0, stride.start_direction, PositionDelta(0, 0))

\* the strides, their steps and their full deltas depend on the tile type only:
\* tile_strides[tt][i] is the i-th stride of all_strides() with both attached
tile_strides ==
    [tt \in TileType |->
        LET strides == all_strides(tt)
        IN [i \in 1 .. Len(strides) |->
               [stride |-> strides[i], steps |-> steps(strides[i]), full_delta |-> full_delta(strides[i])]]]

---------------------------------------------------------------------------
(* Barrier rules: common/pieces/barragoon.rs *)

Blocking == [variant |-> "Blocking"]

ForceTurn == [variant |-> "ForceTurn"]

Straight(alignment) == [variant |-> "Straight", alignment |-> alignment]

OneWay(direction) == [variant |-> "OneWay", direction |-> direction]

OneWayTurnLeft(direction) == [variant |-> "OneWayTurnLeft", direction |-> direction]

OneWayTurnRight(direction) == [variant |-> "OneWayTurnRight", direction |-> direction]

all_faces ==
    <<Blocking, Straight("Horizontal"), Straight("Vertical"),
      OneWay("North"), OneWay("South"), OneWay("East"), OneWay("West"),
      OneWayTurnLeft("North"), OneWayTurnLeft("South"), OneWayTurnLeft("East"), OneWayTurnLeft("West"),
      OneWayTurnRight("North"), OneWayTurnRight("South"), OneWayTurnRight("East"), OneWayTurnRight("West"),
      ForceTurn>>

\* variant: the entries of the left and the right turn faces are exchanged
can_be_captured_from_mirrored(f, enter_dir) ==
    CASE f.variant \in {"ForceTurn", "Blocking"} -> TRUE
      [] f.variant = "Straight" ->
            IF f.alignment = "Vertical" THEN enter_dir = "North" \/ enter_dir = "South"
            ELSE enter_dir = "West" \/ enter_dir = "East"
      [] f.variant = "OneWay" -> f.direction = enter_dir
      [] f.variant = "OneWayTurnRight" ->
            (CASE f.direction = "South" -> enter_dir = "West"
               [] f.direction = "North" -> enter_dir = "East"
               [] f.direction = "East" -> enter_dir = "South"
               [] f.direction = "West" -> enter_dir = "North")
      [] f.variant = "OneWayTurnLeft" ->
            (CASE f.direction = "North" -> enter_dir = "West"
               [] f.direction = "South" -> enter_dir = "East"
               [] f.direction = "West" -> enter_dir = "South"
               [] f.direction = "East" -> enter_dir = "North")

can_be_captured_from(f, enter_dir) ==
    CASE f.variant \in {"ForceTurn", "Blocking"} -> TRUE
      [] f.variant = "Straight" ->
            IF f.alignment = "Vertical" THEN enter_dir = "North" \/ enter_dir = "South"
            ELSE enter_dir = "West" \/ enter_dir = "East"
      [] f.variant = "OneWay" -> f.direction = enter_dir
      [] f.variant = "OneWayTurnLeft" ->
            (CASE f.direction = "South" -> enter_dir = "West"
               [] f.direction = "North" -> enter_dir = "East"
               [] f.direction = "East" -> enter_dir = "South"
               [] f.direction = "West" -> enter_dir = "North")
      [] f.variant = "OneWayTurnRight" ->
            (CASE f.direction = "North" -> enter_dir = "West"
               [] f.direction = "South" -> enter_dir = "East"
               [] f.direction = "West" -> enter_dir = "South"
               [] f.direction = "East" -> enter_dir = "North")

\* variant: every tile captures every face
can_be_captured_by_any(f, tile_type) == TRUE

\* variant: "and" in place of "or"
can_be_captured_by_both(f, tile_type) == tile_type # "Two" /\ f # ForceTurn

can_be_captured_by(f, tile_type) == tile_type # "Two" \/ f # ForceTurn

BoolToU8(b) == IF b THEN 1 ELSE 0

\* the four classes can_be_traversed sorts a pair of directions into
is_horizontal(enter_dir, leave_dir) ==
    (enter_dir = "East" /\ leave_dir = "West") \/ (enter_dir = "West" /\ leave_dir = "East")

is_vertical(enter_dir, leave_dir) ==
    (enter_dir = "South" /\ leave_dir = "North") \/ (enter_dir = "North" /\ leave_dir = "South")

\* variant: the pairs of a left turn with enter and leave exchanged
is_left_turn_exchanged(enter_dir, leave_dir) ==
    \/ (leave_dir = "North" /\ enter_dir = "West")
    \/ (leave_dir = "South" /\ enter_dir = "East")
    \/ (leave_dir = "East" /\ enter_dir = "North")
    \/ (leave_dir = "West" /\ enter_dir = "South")

is_left_turn(enter_dir, leave_dir) ==
    \/ (enter_dir = "North" /\ leave_dir = "West")
    \/ (enter_dir = "South" /\ leave_dir = "East")
    \/ (enter_dir = "East" /\ leave_dir = "North")
    \/ (enter_dir = "West" /\ leave_dir = "South")

is_right_turn(enter_dir, leave_dir) ==
    \/ (enter_dir = "North" /\ leave_dir = "East")
    \/ (enter_dir = "South" /\ leave_dir = "West")
    \/ (enter_dir = "East" /\ leave_dir = "South")
    \/ (enter_dir = "West" /\ leave_dir = "North")

\* the sum of the four flags that can_be_traversed compares with 1
class_count(enter_dir, leave_dir) ==
    BoolToU8(is_horizontal(enter_dir, leave_dir)) + BoolToU8(is_vertical(enter_dir, leave_dir))
        + BoolToU8(is_left_turn(enter_dir, leave_dir)) + BoolToU8(is_right_turn(enter_dir, leave_dir))

can_be_traversed(f, enter_dir, leave_dir) ==
    IF class_count(enter_dir, leave_dir) # 1
    THEN FALSE
    ELSE CASE f.variant = "Blocking" -> FALSE
           [] f.variant = "ForceTurn" ->
                 is_left_turn(enter_dir, leave_dir) \/ is_right_turn(enter_dir, leave_dir)
           [] f.variant = "Straight" ->
                 IF f.alignment = "Vertical" THEN is_vertical(enter_dir, leave_dir)
                 ELSE is_horizontal(enter_dir, leave_dir)
           [] f.variant = "OneWay" ->
                 /\ f.direction = enter_dir
                 /\ (is_horizontal(enter_dir, leave_dir) \/ is_vertical(enter_dir, leave_dir))
           [] f.variant = "OneWayTurnLeft" -> is_left_turn(enter_dir, leave_dir) /\ leave_dir = f.direction
           [] f.variant = "OneWayTurnRight" -> is_right_turn(enter_dir, leave_dir) /\ leave_dir = f.direction

---------------------------------------------------------------------------
(* Board and square contents: bin/cubekill/main.rs *)

Player == {"Light", "Dark"}

Empty == [kind |-> "Empty"]

Tile(tile_type, player) == [tile_type |-> tile_type, player |-> player]

SC_Tile(tile) == [kind |-> "Tile", tile |-> tile]

SC_Barragoon(f) == [kind |-> "Barragoon", face |-> f]

Ranks == 0 .. (BOARD_HEIGHT - 1)

Files == 0 .. (BOARD_WIDTH - 1)

\* [[SC::Empty; BOARD_WIDTH]; BOARD_HEIGHT]
EmptyBoard == [r \in Ranks |-> [f \in Files |-> Empty]]

\* variant: only the rank is compared
contains_coordinate_rank_only(c) == c.rank < BOARD_HEIGHT

contains_coordinate(c) == c.rank < BOARD_HEIGHT /\ c.file < BOARD_WIDTH

\* what an index expression board[rank][file] outside the array yields: the
\* thread panics, and no square content is read
IndexOutOfBounds == [kind |-> "IndexOutOfBounds"]

get_content(b, c) ==
    IF c.rank \in Ranks /\ c.file \in Files THEN b[c.rank][c.file] ELSE IndexOutOfBounds

set_content(b, c, content) == [b EXCEPT ![c.rank][c.file] = content]

\* SquareIterator: rank 0 to 8, within a rank file 0 to 6
squares == [i \in 1 .. (BOARD_HEIGHT * BOARD_WIDTH) |->
               Coordinate((i - 1) \div BOARD_WIDTH, (i - 1) % BOARD_WIDTH)]

---------------------------------------------------------------------------
(* FEN codec: Game::from_fen, Game::as_fen *)

INITIAL_FEN_STRING == <<"1", "v", "d", "1", "d", "v", "1", "/", "2", "z", "d", "z", "2", "/", "7", "/", "1", "x", "3", "x", "1", "/", "x", "1", "x", "1", "x", "1", "x", "/", "1", "x", "3", "x", "1", "/", "7", "/", "2", "Z", "D", "Z", "2", "/", "1", "V", "D", "1", "D", "V", "1">>

EMPTY_FEN_STRING == <<"7", "/", "7", "/", "7", "/", "7", "/", "7", "/", "7", "/", "7", "/", "7", "/", "7">>

\* variant: the letter of a tile does not tell its player
tile_as_fen_char_upper(tile) ==
    CASE tile.tile_type = "Two" -> "Z"
      [] tile.tile_type = "Three" -> "D"
      [] tile.tile_type = "Four" -> "V"

tile_as_fen_char(tile) ==
    IF tile.player = "Light"
    THEN CASE tile.tile_type = "Two" -> "Z"
           [] tile.tile_type = "Three" -> "D"
           [] tile.tile_type = "Four" -> "V"
    ELSE CASE tile.tile_type = "Two" -> "z"
           [] tile.tile_type = "Three" -> "d"
           [] tile.tile_type = "Four" -> "v"

as_fen_char(content) ==
    CASE content.kind = "Empty" -> " "
      [] content.kind = "Tile" -> tile_as_fen_char(content.tile)
      [] content.kind = "Barragoon" ->
            LET f == content.face
            IN CASE f.variant = "ForceTurn" -> "+"
                 [] f.variant = "Straight" -> (IF f.alignment = "Vertical" THEN "|" ELSE "-")
                 [] f.variant = "OneWay" ->
                       (CASE f.direction = "South" -> "Y"
                          [] f.direction = "North" -> "^"
                          [] f.direction = "West" -> "<"
                          [] f.direction = "East" -> ">")
                 [] f.variant = "Blocking" -> "x"
                 [] f.variant = "OneWayTurnLeft" ->
                       (CASE f.direction = "South" -> "S"
                          [] f.direction = "North" -> "N"
                          [] f.direction = "East" -> "E"
                          [] f.direction = "West" -> "W")
                 [] f.variant = "OneWayTurnRight" ->
                       (CASE f.direction = "South" -> "s"
                          [] f.direction = "North" -> "n"
                          [] f.direction = "East" -> "e"
                          [] f.direction = "West" -> "w")

\* char::to_digit(10) on the characters '1'..='7'
to_digit(c) ==
    CASE c = "1" -> 1 [] c = "2" -> 2 [] c = "3" -> 3 [] c = "4" -> 4
      [] c = "5" -> 5 [] c = "6" -> 6 [] c = "7" -> 7

\* the match of from_fen that turns a character into a FenParseObject
FenParseObject(c) ==
    CASE c = "Z" -> [obj |-> "Square", content |-> SC_Tile(Tile("Two", "Light"))]
      [] c = "z" -> [obj |-> "Square", content |-> SC_Tile(Tile("Two", "Dark"))]
      [] c = "D" -> [obj |-> "Square", content |-> SC_Tile(Tile("Three", "Light"))]
      [] c = "d" -> [obj |-> "Square", content |-> SC_Tile(Tile("Three", "Dark"))]
      [] c = "V" -> [obj |-> "Square", content |-> SC_Tile(Tile("Four", "Light"))]
      [] c = "v" -> [obj |-> "Square", content |-> SC_Tile(Tile("Four", "Dark"))]
      [] c = "+" -> [obj |-> "Square", content |-> SC_Barragoon(ForceTurn)]
      [] c = "|" -> [obj |-> "Square", content |-> SC_Barragoon(Straight("Vertical"))]
      [] c = "-" -> [obj |-> "Square", content |-> SC_Barragoon(Straight("Horizontal"))]
      [] c = "Y" -> [obj |-> "Square", content |-> SC_Barragoon(OneWay("South"))]
      [] c = "^" -> [obj |-> "Square", content |-> SC_Barragoon(OneWay("North"))]
      [] c = "<" -> [obj |-> "Square", content |-> SC_Barragoon(OneWay("West"))]
      [] c = ">" -> [obj |-> "Square", content |-> SC_Barragoon(OneWay("East"))]
      [] c = "x" -> [obj |-> "Square", content |-> SC_Barragoon(Blocking)]
      [] c = "S" -> [obj |-> "Square", content |-> SC_Barragoon(OneWayTurnLeft("South"))]
      [] c = "N" -> [obj |-> "Square", content |-> SC_Barragoon(OneWayTurnLeft("North"))]
      [] c = "E" -> [obj |-> "Square", content |-> SC_Barragoon(OneWayTurnLeft("East"))]
      [] c = "W" -> [obj |-> "Square", content |-> SC_Barragoon(OneWayTurnLeft("West"))]
      [] c = "s" -> [obj |-> "Square", content |-> SC_Barragoon(OneWayTurnRight("South"))]
      [] c = "n" -> [obj |-> "Square", content |-> SC_Barragoon(OneWayTurnRight("North"))]
      [] c = "e" -> [obj |-> "Square", content |-> SC_Barragoon(OneWayTurnRight("East"))]
      [] c = "w" -> [obj |-> "Square", content |-> SC_Barragoon(OneWayTurnRight("West"))]
      [] c \in {"1", "2", "3", "4", "5", "6", "7"} -> [obj |-> "JumpCol", cols |-> to_digit(c)]
      [] c = "/" -> [obj |-> "SkipRow"]
      [] OTHER -> [obj |-> "InvalidChar"]

\* locals of from_fen before the first character
FenStart ==
    [board |-> EmptyBoard, row_ptr |-> BOARD_HEIGHT_SIGNED - 1, col_ptr |-> 0,
     status |-> "Parsing", char_index |-> 0]

FenFail(st, status, index) == [st EXCEPT !.status = status, !.char_index = index]

\* variant: the first row of the text is stored at rank 0 and the following
\* rows at increasing ranks
FenStepBottomUp(st, index, c) ==
    LET obj == FenParseObject(c)
        row_idx == (BOARD_HEIGHT - 1) - st.row_ptr
    IN CASE obj.obj = "Square" ->
              IF st.col_ptr >= BOARD_WIDTH
              THEN FenFail(st, "Panic", index)
              ELSE [st EXCEPT !.board[row_idx][st.col_ptr] = obj.content,
                              !.col_ptr = st.col_ptr + 1]
         [] obj.obj = "JumpCol" ->
              IF st.col_ptr + obj.cols > BOARD_WIDTH
              THEN FenFail([st EXCEPT !.col_ptr = st.col_ptr + obj.cols], "OverfullLine", index)
              ELSE [st EXCEPT !.col_ptr = st.col_ptr + obj.cols]
         [] obj.obj = "SkipRow" ->
              IF st.col_ptr = BOARD_WIDTH
              THEN IF st.row_ptr - 1 < 0
                   THEN FenFail([st EXCEPT !.col_ptr = 0, !.row_ptr = st.row_ptr - 1], "TooManyLines", index)
                   ELSE [st EXCEPT !.col_ptr = 0, !.row_ptr = st.row_ptr - 1]
              ELSE FenFail(st, "UnderfullLine", index)
         [] obj.obj = "InvalidChar" -> FenFail(st, "InvalidChar", index)

\* one iteration of the loop of from_fen on character c at byte index `index`;
\* "Panic" is the out-of-bounds index of board[row_idx][col_ptr]
FenStep(st, index, c) ==
    LET obj == FenParseObject(c)
        row_idx == st.row_ptr
    IN CASE obj.obj = "Square" ->
              IF st.col_ptr >= BOARD_WIDTH
              THEN FenFail(st, "Panic", index)
              ELSE [st EXCEPT !.board[row_idx][st.col_ptr] = obj.content,
                              !.col_ptr = st.col_ptr + 1]
         [] obj.obj = "JumpCol" ->
              IF st.col_ptr + obj.cols > BOARD_WIDTH
              THEN FenFail([st EXCEPT !.col_ptr = st.col_ptr + obj.cols], "OverfullLine", index)
              ELSE [st EXCEPT !.col_ptr = st.col_ptr + obj.cols]
         [] obj.obj = "SkipRow" ->
              IF st.col_ptr = BOARD_WIDTH
              THEN IF st.row_ptr - 1 < 0
                   THEN FenFail([st EXCEPT !.col_ptr = 0, !.row_ptr = st.row_ptr - 1], "TooManyLines", index)
                   ELSE [st EXCEPT !.col_ptr = 0, !.row_ptr = st.row_ptr - 1]
              ELSE FenFail(st, "UnderfullLine", index)
         [] obj.obj = "InvalidChar" -> FenFail(st, "InvalidChar", index)

\* the value from_fen returns once the characters are exhausted in state st
FenFinish(st) ==
    IF st.status = "Parsing"
    THEN [status |-> "Ok", board |-> st.board, current_player |-> "Light"]
    ELSE [status |-> st.status, char_index |-> st.char_index]

RECURSIVE FenLoop(_, _, _)
FenLoop(st, s, i) ==
    IF i > Len(s) \/ st.status # "Parsing" THEN st
    ELSE FenLoop(FenStep(st, i - 1, s[i]), s, i + 1)

from_fen(s) == FenFinish(FenLoop(FenStart, s, 1))

\* usize::to_string for the counts as_fen prints
to_string(n) ==
    IF n < 10 THEN <<<<"0", "1", "2", "3", "4", "5", "6", "7", "8", "9">>[n + 1]>>
    ELSE <<"?">>

\* the inner loop of as_fen over the squares of one row, from file `file` on
RECURSIVE RowFen(_, _, _)
RowFen(row, file, empty_count) ==
    IF file >= BOARD_WIDTH
    THEN (IF empty_count > 0 THEN to_string(empty_count) ELSE <<>>) \o <<"/">>
    ELSE IF row[file] = Empty
         THEN RowFen(row, file + 1, empty_count + 1)
         ELSE (IF empty_count > 0 THEN to_string(empty_count) ELSE <<>>)
              \o <<as_fen_char(row[file])>> \o RowFen(row, file + 1, 0)

\* the outer loop of as_fen: rows in reverse order, from rank `rank` down to 0
RECURSIVE RowsFen(_, _)
RowsFen(b, rank) ==
    IF rank < 0 THEN <<>> ELSE RowFen(b[rank], 0, 0) \o RowsFen(b, rank - 1)

as_fen(b) ==
    LET fen_string == RowsFen(b, BOARD_HEIGHT - 1)
    IN SubSeq(fen_string, 1, Len(fen_string) - 1)

\* Game::new()
new == from_fen(INITIAL_FEN_STRING)

\* Game::empty()
empty == from_fen(EMPTY_FEN_STRING)

---------------------------------------------------------------------------
(* Moves and the move generator: Game::valid_moves *)

StraightMove(start, stop, tile) ==
    [kind |-> "Straight", start |-> start, stop |-> stop, tile |-> tile]

TileCapture(start, stop, tile, victim) ==
    [kind |-> "TileCapture", start |-> start, stop |-> stop, tile |-> tile, victim |-> victim]

BarragoonCapture(start, stop, tile, victim, target, barragoon) ==
    [kind |-> "BarragoonCapture", start |-> start, stop |-> stop, tile |-> tile,
     victim |-> victim, target |-> target, barragoon |-> barragoon]

BarragoonPlacement(target, barragoon) ==
    [kind |-> "BarragoonPlacement", target |-> target, barragoon |-> barragoon]

\* variant: the relocation loop skips the mover's origin too
is_capture_target_empty_only(b, origin, c) == get_content(b, c) = Empty

\* variant: the relocation loop skips the squares of other tiles only
is_capture_target_no_tile(b, origin, c) == get_content(b, c).kind # "Tile" \/ c = origin

\* the squares the relocation loop does not skip: empty ones and the mover's origin
is_capture_target(b, origin, c) == ~(get_content(b, c) # Empty /\ c # origin)

\* the two nested loops that push one BarragoonCapture per target square and new face
barragoon_captures(b, origin, stop, tile, victim) ==
    LET targets == SelectSeq(squares, LAMBDA c : is_capture_target(b, origin, c))
        n_faces == Len(all_faces)
    IN [i \in 1 .. (Len(targets) * n_faces) |->
           BarragoonCapture(origin, stop, tile, victim,
                            targets[((i - 1) \div n_faces) + 1],
                            all_faces[((i - 1) % n_faces) + 1])]

NoMoves == [moves |-> <<>>, covered |-> {}]

\* the entry that stands in the list for a call that panicked instead of returning
Panicked == [kind |-> "Panicked"]

\* the loop "for full_step in stride.steps()" from step k on: the moves it pushes
\* and the coordinates it inserts into covered_squares
RECURSIVE walk_steps(_, _, _, _, _, _)
walk_steps(b, origin, tile, stride, stride_steps, k) ==
    IF k > Len(stride_steps) THEN NoMoves
    ELSE LET full_step == stride_steps[k]
             new_coordinate == CoordAdd(origin, full_step.position_delta)
             rest == walk_steps(b, origin, tile, stride, stride_steps, k + 1)
             is_last_step == full_step.leave_direction = "None"
             push(ms) == [moves |-> ms \o rest.moves, covered |-> {new_coordinate} \cup rest.covered]
         IN IF ~contains_coordinate(new_coordinate) THEN rest
            ELSE LET target_square_content == get_content(b, new_coordinate)
                 IN CASE target_square_content.kind = "Tile" ->
                            IF \/ tile.player = target_square_content.tile.player
                               \/ ~is_last_step
                               \/ ~can_capture(stride)
                            THEN NoMoves
                            ELSE push(<<TileCapture(origin, new_coordinate, tile, target_square_content.tile)>>)
                      [] target_square_content.kind = "Empty" ->
                            IF is_last_step
                            THEN push(<<StraightMove(origin, new_coordinate, tile)>>)
                            ELSE rest
                      [] target_square_content.kind = "Barragoon" ->
                            LET f == target_square_content.face
                            IN IF full_step.leave_direction # "None"
                               THEN IF ~can_be_traversed(f, full_step.enter_direction, full_step.leave_direction)
                                    THEN NoMoves
                                    ELSE rest
                               ELSE IF /\ can_capture(stride)
                                       /\ can_be_captured_by(f, tile.tile_type)
                                       /\ can_be_captured_from(f, full_step.enter_direction)
                                    THEN push(barragoon_captures(b, origin, new_coordinate, tile, f))
                                    ELSE NoMoves
                      [] target_square_content = IndexOutOfBounds ->
                            [moves |-> <<Panicked>>, covered |-> {}]

\* the loops below run their iterations in order: the moves of one iteration are
\* evaluated to a value before the next iteration starts from them
Evaluated(ms) == Len(ms) >= 0

\* variant: no stride is skipped for its destination
never_covered(covered_squares, coordinate_to_cover) == FALSE

\* variant: a stride is skipped when a covered square lies on the rank of its destination
is_covered_on_rank(covered_squares, coordinate_to_cover) ==
    \E c \in covered_squares : c.rank = coordinate_to_cover.rank

\* whether the stride at hand is skipped because its destination is already covered
is_covered(covered_squares, coordinate_to_cover) == coordinate_to_cover \in covered_squares

\* one iteration of the loop "for stride in all_strides"; acc holds the moves pushed
\* so far and covered_squares, st is an entry of tile_strides
walk_stride(b, origin, tile, st, acc) ==
    LET coordinate_to_cover == CoordAdd(origin, st.full_delta)
    IN IF ~contains_coordinate(coordinate_to_cover) THEN acc
       ELSE IF is_covered(acc.covered, coordinate_to_cover) THEN acc
       ELSE LET w == walk_steps(b, origin, tile, st.stride, st.steps, 1)
            IN [moves |-> acc.moves \o w.moves, covered |-> acc.covered \cup w.covered]

\* the loop "for stride in all_strides" from stride i on
RECURSIVE walk_strides(_, _, _, _, _, _)
walk_strides(b, origin, tile, strides, i, acc) ==
    IF i > Len(strides) THEN acc
    ELSE LET next == walk_stride(b, origin, tile, strides[i], acc)
         IN IF Evaluated(next.moves)
            THEN walk_strides(b, origin, tile, strides, i + 1, next)
            ELSE next

\* variant: the tiles of the other player are not skipped
square_moves_any_player(b, player, c, ms) ==
    walk_strides(b, c, get_content(b, c).tile, tile_strides[get_content(b, c).tile.tile_type], 1,
                 [moves |-> ms, covered |-> {}]).moves

\* the body of the loop "for square in self.squares()" for a square that holds a
\* tile; ms is the Vec moves so far
square_moves(b, player, c, ms) ==
    LET moving_tile == get_content(b, c).tile
    IN IF moving_tile.player # player THEN ms
       ELSE walk_strides(b, c, moving_tile, tile_strides[moving_tile.tile_type], 1,
                         [moves |-> ms, covered |-> {}]).moves

\* the loop "for square in self.squares()" over tile_squares, the squares that
\* pass "if let SC::Tile(moving_tile) = square.content", from the i-th on
RECURSIVE squares_loop(_, _, _, _, _)
squares_loop(b, player, tile_squares, i, ms) ==
    IF i > Len(tile_squares) THEN ms
    ELSE LET next == square_moves(b, player, tile_squares[i], ms)
         IN IF Evaluated(next)
            THEN squares_loop(b, player, tile_squares, i + 1, next)
            ELSE next

\* Game::valid_moves: the Vec of moves in the order they are pushed
valid_moves(b, player) ==
    squares_loop(b, player, SelectSeq(squares, LAMBDA c : get_content(b, c).kind = "Tile"), 1, <<>>)

Range(s) == {s[i] : i \in DOMAIN s}

---------------------------------------------------------------------------
(* The move applier: Game::make_move *)

\* variant: a bare placement is applied without looking it up
is_accepted_or_placement(valid, board_move) ==
    \/ board_move.kind = "BarragoonPlacement"
    \/ \E i \in DOMAIN valid : valid[i] = board_move

\* whether make_move goes on to apply the move: `valid` holds the moves
\* self.valid_moves() returned, and the move must be one of them
is_accepted(valid, board_move) == \E i \in DOMAIN valid : valid[i] = board_move

\* variant: the origin square is not cleared
apply_move_keeping_start(b, board_move) ==
    CASE board_move.kind \in {"Straight", "TileCapture", "BarragoonCapture"} ->
            LET moved == set_content(b, board_move.stop, SC_Tile(board_move.tile))
            IN IF board_move.kind = "BarragoonCapture"
               THEN set_content(moved, board_move.target, SC_Barragoon(board_move.barragoon))
               ELSE moved
      [] board_move.kind = "BarragoonPlacement" ->
            set_content(b, board_move.target, SC_Barragoon(board_move.barragoon))

\* variant: the captured barrier is not put back on the board
apply_move_no_relocation(b, board_move) ==
    CASE board_move.kind \in {"Straight", "TileCapture", "BarragoonCapture"} ->
            set_content(set_content(b, board_move.stop, SC_Tile(board_move.tile)),
                        board_move.start, Empty)
      [] board_move.kind = "BarragoonPlacement" ->
            set_content(b, board_move.target, SC_Barragoon(board_move.barragoon))

\* variant: the relocated barrier is written before the origin square is cleared
apply_move_target_first(b, board_move) ==
    CASE board_move.kind \in {"Straight", "TileCapture"} ->
            set_content(set_content(b, board_move.stop, SC_Tile(board_move.tile)),
                        board_move.start, Empty)
      [] board_move.kind = "BarragoonCapture" ->
            set_content(
                set_content(set_content(b, board_move.target, SC_Barragoon(board_move.barragoon)),
                            board_move.stop, SC_Tile(board_move.tile)),
                board_move.start, Empty)
      [] board_move.kind = "BarragoonPlacement" ->
            set_content(b, board_move.target, SC_Barragoon(board_move.barragoon))

apply_move(b, board_move) ==
    CASE board_move.kind \in {"Straight", "TileCapture"} ->
            set_content(set_content(b, board_move.stop, SC_Tile(board_move.tile)),
                        board_move.start, Empty)
      [] board_move.kind = "BarragoonCapture" ->
            set_content(
                set_content(set_content(b, board_move.stop, SC_Tile(board_move.tile)),
                            board_move.start, Empty),
                board_move.target, SC_Barragoon(board_move.barragoon))
      [] board_move.kind = "BarragoonPlacement" ->
            set_content(b, board_move.target, SC_Barragoon(board_move.barragoon))

\* variant: the move is applied whether or not it is one of the valid moves
make_move_unchecked(b, valid, board_move) ==
    [result |-> IF is_accepted(valid, board_move) THEN "Ok" ELSE "Err",
     board |-> apply_move(b, board_move)]

\* make_move on a game with board b whose valid_moves() collect to `valid`:
\* the result and the board afterwards
make_move(b, valid, board_move) ==
    IF ~is_accepted(valid, board_move)
    THEN [result |-> "Err", board |-> b]
    ELSE [result |-> "Ok", board |-> apply_move(b, board_move)]

---------------------------------------------------------------------------
(* Games the behaviours start from *)

LightTile(tile_type) == SC_Tile(Tile(tile_type, "Light"))

\* a decoded position with tiles of both players and barriers on the strides
SKIRMISH_FEN_STRING == <<"7", "/", "3", "z", "3", "/", "7", "/", "3", "W", "d", "2", "/", "3", "D", "1", "Z", "1", "/", "3", "Y", "3", "/", "7", "/", "7", "/", "7">>

\* tests piece_has_n_moves: Game::empty() with board[4][3] set
single_tile(tile_type) == set_content(empty.board, Coordinate(4, 3), LightTile(tile_type))

\* test two_piece_and_a_barragoon_have_1003_moves
two_blocking == set_content(single_tile("Two"), Coordinate(2, 3), SC_Barragoon(Blocking))

\* test two_piece_cannot_capture_force_turn
two_force_turn == set_content(single_tile("Two"), Coordinate(4, 1), SC_Barragoon(ForceTurn))

\* test three_piece_can_capture_force_turn, first round
three_force_turn == set_content(single_tile("Three"), Coordinate(4, 0), SC_Barragoon(ForceTurn))

\* a Four tile with a Blocking barrier at the end of its straight stride south
four_blocking == set_content(single_tile("Four"), Coordinate(0, 3), SC_Barragoon(Blocking))

\* a Three tile with a Straight{Vertical} barrier on its way north and a
\* OneWay{East} barrier on its way east
three_passages ==
    set_content(set_content(single_tile("Three"), Coordinate(5, 3), SC_Barragoon(Straight("Vertical"))),
                Coordinate(4, 4), SC_Barragoon(OneWay("East")))

Setups == {"new", "Two", "Three", "Four", "two_blocking", "two_force_turn",
           "three_force_turn", "four_blocking", "three_passages", "skirmish"}

\* the game a setup starts from: new(), from_fen of a text, or empty() with
\* squares set afterwards
SetupGame(s) ==
    CASE s = "new" -> new
      [] s = "skirmish" -> from_fen(SKIRMISH_FEN_STRING)
      [] OTHER -> empty

SetupBoard(s) ==
    CASE s = "new" -> new.board
      [] s \in TileType -> single_tile(s)
      [] s = "two_blocking" -> two_blocking
      [] s = "two_force_turn" -> two_force_turn
      [] s = "three_force_turn" -> three_force_turn
      [] s = "four_blocking" -> four_blocking
      [] s = "three_passages" -> three_passages
      [] s = "skirmish" -> from_fen(SKIRMISH_FEN_STRING).board

NoMove == [kind |-> "None"]

\* the first square of a sequence of squares, as a set
FirstSquare(hits) == IF hits = <<>> THEN {} ELSE {hits[1]}

\* moves a caller can build by hand, most of them outside valid_moves(): one step
\* north of the first tile of either player, a straight full stride south of the
\* first Dark tile, forged captures by the first Light tile, the move of test
\* game_denies_invalid_move and two bare placements
ForeignMoves(b) ==
    LET tile_of(player) ==
            SelectSeq(squares, LAMBDA c : /\ get_content(b, c).kind = "Tile"
                                         /\ get_content(b, c).tile.player = player)
        light == FirstSquare(tile_of("Light"))
        dark == FirstSquare(tile_of("Dark"))
        barrier == FirstSquare(SelectSeq(squares, LAMBDA c : get_content(b, c).kind = "Barragoon"))
        north(c) == CoordAdd(c, PositionDelta(1, 0))
        south(c) == CoordAdd(c, full_delta(new_straight("South",
                                    full_stride_length(get_content(b, c).tile.tile_type), TRUE)))
    IN {StraightMove(c, north(c), get_content(b, c).tile) :
            c \in {t \in light \cup dark : contains_coordinate(north(t))}}
       \cup {StraightMove(c, south(c), get_content(b, c).tile) :
               c \in {t \in dark : contains_coordinate(south(t))}}
       \cup {TileCapture(c, d, get_content(b, c).tile, get_content(b, d).tile) : c \in light, d \in dark}
       \cup {BarragoonCapture(c, d, get_content(b, c).tile, get_content(b, d).face, d, Blocking) :
                c \in light, d \in barrier}
       \cup {StraightMove(Coordinate(1, 2), Coordinate(8, 2), Tile("Two", "Light")),
             BarragoonPlacement(Coordinate(0, 0), Blocking),
             BarragoonPlacement(Coordinate(4, 4), ForceTurn)}

\* the faces a caller relocates a captured barrier with, unless it puts the
\* barrier on the square the tile left
RelocationFaces == {ForceTurn, Straight("Vertical")}

\* the valid moves a caller submits
is_submitted(board_move) ==
    \/ board_move.kind # "BarragoonCapture"
    \/ board_move.barragoon \in RelocationFaces
    \/ board_move.target = board_move.start

SubmittedMoves(valid) == {valid[i] : i \in {j \in DOMAIN valid : is_submitted(valid[j])}}

GameInit ==
    /\ setup \in Setups
    /\ board = SetupBoard(setup)
    /\ current_player = SetupGame(setup).current_player
    /\ last_move = NoMove
    /\ result = "None"
    /\ n_calls = 0
    /\ moves = valid_moves(board, current_player)

FenInit ==
    /\ fen = <<>>
    /\ fen_state = FenStart
    /\ fen_items = 0

\* no rule function has been called
RuleInit ==
    /\ query = [op |-> "none"]
    /\ answer = "none"

NoInput == [cmd |-> "none"]

\* run_loop has built UbiHandler::new() and has read no line
UbiInit ==
    /\ ubi_state = "Unitialized"
    /\ ubi_running = TRUE
    /\ ubi_input = NoInput
    /\ ubi_output = <<>>
    /\ n_commands = 0

Init == GameInit /\ FenInit /\ RuleInit /\ UbiInit

\* one call game.make_move(&board_move); valid is the list the call obtains
\* from self.valid_moves(), kept in moves
MakeMove ==
    /\ n_calls < MaxCalls
    /\ \E valid \in {valid_moves(board, current_player)} :
          /\ \E board_move \in SubmittedMoves(valid) \cup ForeignMoves(board) :
                \E r \in {make_move(board, valid, board_move)} :
                   /\ board' = r.board
                   /\ result' = r.result
                   /\ last_move' = board_move
          /\ moves' = valid
    /\ n_calls' = n_calls + 1
    /\ UNCHANGED <<current_player, setup>>
    /\ UNCHANGED fen_vars
    /\ UNCHANGED rule_vars
    /\ UNCHANGED ubi_vars

Next == MakeMove

Spec == Init /\ [][Next]_vars

---------------------------------------------------------------------------
(* Decoding a position text character by character *)

SquareChars ==
    {"Z", "z", "D", "d", "V", "v", "+", "|", "-", "Y", "^", "<", ">", "x",
     "S", "N", "E", "W", "s", "n", "e", "w"}

DigitChars == {"1", "2", "3", "4", "5", "6", "7"}

\* characters from_fen does not recognise
OtherChars == {"8", "0", " "}

\* the characters fed to the decoder: any character first, then a fixed selection
FenChars(items) ==
    IF items = 0 THEN SquareChars \cup DigitChars \cup OtherChars \cup {"/"}
    ELSE {"Z", "d", "x", "+", "S", "n", "1", "3", "6", "7", "/", "8"}

IsItem(c) == c \notin {"7", "/"}

\* the loop of from_fen takes the next character of the text
FenChar ==
    /\ fen_state.status = "Parsing"
    /\ \E c \in FenChars(fen_items) :
          /\ IsItem(c) => fen_items < MaxFenItems
          /\ fen' = Append(fen, c)
          /\ fen_state' = FenStep(fen_state, Len(fen), c)
          /\ fen_items' = IF IsItem(c) THEN fen_items + 1 ELSE fen_items
    /\ UNCHANGED game_vars
    /\ UNCHANGED rule_vars
    /\ UNCHANGED ubi_vars

\* the text is exhausted: from_fen returns Ok
FenEnd ==
    /\ fen_state.status = "Parsing"
    /\ fen_state' = [fen_state EXCEPT !.status = "Ok"]
    /\ UNCHANGED <<fen, fen_items>>
    /\ UNCHANGED game_vars
    /\ UNCHANGED rule_vars
    /\ UNCHANGED ubi_vars

FenGameInit ==
    /\ setup = "empty"
    /\ board = empty.board
    /\ current_player = empty.current_player
    /\ last_move = NoMove
    /\ result = "None"
    /\ n_calls = 0
    /\ moves = valid_moves(board, current_player)

InitFen == FenGameInit /\ FenInit /\ RuleInit /\ UbiInit

NextFen == FenChar \/ FenEnd

SpecFen == InitFen /\ [][NextFen]_vars

---------------------------------------------------------------------------
(* Calls of the rule functions of barriers and strides, one call per behaviour *)

FenRuleGameInit == FenGameInit /\ FenInit

\* face.can_be_captured_from(&enter_dir)
CanBeCapturedFrom ==
    /\ query.op = "none"
    /\ \E f \in Range(all_faces), enter_dir \in Direction :
          /\ query' = [op |-> "can_be_captured_from", face |-> f, enter_dir |-> enter_dir]
          /\ answer' = can_be_captured_from(f, enter_dir)
    /\ UNCHANGED game_vars
    /\ UNCHANGED fen_vars
    /\ UNCHANGED ubi_vars

\* face.can_be_captured_by(tile_type)
CanBeCapturedBy ==
    /\ query.op = "none"
    /\ \E f \in Range(all_faces), tile_type \in TileType :
          /\ query' = [op |-> "can_be_captured_by", face |-> f, tile_type |-> tile_type]
          /\ answer' = can_be_captured_by(f, tile_type)
    /\ UNCHANGED game_vars
    /\ UNCHANGED fen_vars
    /\ UNCHANGED ubi_vars

\* face.can_be_traversed(enter_dir, leave_dir)
CanBeTraversed ==
    /\ query.op = "none"
    /\ \E f \in Range(all_faces), enter_dir \in Direction, leave_dir \in Direction :
          /\ query' = [op |-> "can_be_traversed", face |-> f,
                        enter_dir |-> enter_dir, leave_dir |-> leave_dir]
          /\ answer' = can_be_traversed(f, enter_dir, leave_dir)
    /\ UNCHANGED game_vars
    /\ UNCHANGED fen_vars
    /\ UNCHANGED ubi_vars

\* tile_type.full_strides()
FullStrides ==
    /\ query.op = "none"
    /\ \E tile_type \in TileType :
          /\ query' = [op |-> "full_strides", tile_type |-> tile_type]
          /\ answer' = full_strides(tile_type)
    /\ UNCHANGED game_vars
    /\ UNCHANGED fen_vars
    /\ UNCHANGED ubi_vars

\* stride.steps() collected, for a stride of tile_type.all_strides()
Steps ==
    /\ query.op = "none"
    /\ \E tile_type \in TileType :
          \E stride \in Range(all_strides(tile_type)) :
             /\ query' = [op |-> "steps", tile_type |-> tile_type, stride |-> stride]
             /\ answer' = steps(stride)
    /\ UNCHANGED game_vars
    /\ UNCHANGED fen_vars
    /\ UNCHANGED ubi_vars

\* the displacements a stride of at most four cells can add to a coordinate
Displacements == {PositionDelta(r, f) : r \in -4 .. 4, f \in -4 .. 4}

\* coordinate + delta for a coordinate of the board
CoordinateAdd ==
    /\ query.op = "none"
    /\ \E c \in Range(squares), d \in Displacements :
          /\ query' = [op |-> "add", coordinate |-> c, delta |-> d]
          /\ answer' = CoordAdd(c, d)
    /\ UNCHANGED game_vars
    /\ UNCHANGED fen_vars
    /\ UNCHANGED ubi_vars

\* the coordinates valid_moves() computes for one stride of a tile on origin:
\* coordinate_to_cover, and new_coordinate for each step in order
StrideCoordinates ==
    /\ query.op = "none"
    /\ \E origin \in Range(squares), tile_type \in TileType :
          \E st \in Range(tile_strides[tile_type]) :
             /\ query' = [op |-> "coordinates", origin |-> origin, tile_type |-> tile_type,
                           stride |-> st.stride]
             /\ answer' = [coordinate_to_cover |-> CoordAdd(origin, st.full_delta),
                            new_coordinates |-> [k \in DOMAIN st.steps |->
                                                    CoordAdd(origin, st.steps[k].position_delta)]]
    /\ UNCHANGED game_vars
    /\ UNCHANGED fen_vars
    /\ UNCHANGED ubi_vars

InitRules == FenRuleGameInit /\ RuleInit /\ UbiInit

NextRules ==
    \/ CanBeCapturedFrom
    \/ CanBeCapturedBy
    \/ CanBeTraversed
    \/ FullStrides
    \/ Steps
    \/ CoordinateAdd
    \/ StrideCoordinates

SpecRules == InitRules /\ [][NextRules]_vars

---------------------------------------------------------------------------
(* The UBI command loop: ubi.rs. Its Game is crate::Game, whose from_fen is *)
(* the decoder above                                                        *)

\* the first answer to "ubi": the format string with the application constants
id_line == "id name ENGINE_NAME vVERSION_MAJOR.VERSION_MINOR.VERSION_PATCH author AUTHOR_NAME"

\* UbiHandler::ubi: the state afterwards and the answers
ubi(state) ==
    IF state = "Unitialized"
    THEN [state |-> "WaitingForReady", answers |-> <<id_line, "ubiok">>]
    ELSE [state |-> state, answers |-> <<>>]

\* UbiHandler::isready
isready(state) ==
    CASE state = "Unitialized" -> [state |-> state, answers |-> <<>>]
      [] state = "WaitingForReady" -> [state |-> "Ready", answers |-> <<"readyok">>]
      [] OTHER -> [state |-> state, answers |-> <<"readyok">>]

MovesWord == <<"m", "o", "v", "e", "s">>

\* UbiHandler::collect_residual_fen_args: the arguments up to "moves", concatenated
RECURSIVE collect_residual_fen_args(_)
collect_residual_fen_args(residual_args) ==
    IF residual_args = <<>> THEN <<>>
    ELSE IF Head(residual_args) = MovesWord THEN <<>>
    ELSE Head(residual_args) \o collect_residual_fen_args(Tail(residual_args))

\* the answer position pushes for an Err of from_fen
fen_error_answer(game_result) ==
    CASE game_result.status = "UnderfullLine" -> <<"Board rank is not filled at index", game_result.char_index>>
      [] game_result.status = "OverfullLine" -> <<"Board rank is too full at index", game_result.char_index>>
      [] game_result.status = "TooManyLines" -> <<"Board has to many ranks at index", game_result.char_index>>
      [] game_result.status = "InvalidChar" -> <<"Board contains invalid char at index", game_result.char_index>>

\* UbiHandler::position on a handler with the given state and game; args is the
\* rest of the line split at whitespace. panicked: from_fen panicked and the
\* call did not return
position(state, game, args) ==
    LET start_position_mode == IF args = <<>> THEN "None" ELSE Head(args)
        done(g, answers) == [state |-> "PositionSet", game |-> g, answers |-> answers, panicked |-> FALSE]
    IN CASE start_position_mode = "startpos" -> done(new, <<>>)
         [] start_position_mode = "fen" ->
               LET game_result == from_fen(collect_residual_fen_args(Tail(args)))
               IN CASE game_result.status = "Ok" -> done(game_result, <<>>)
                    [] game_result.status = "Panic" ->
                          [state |-> state, game |-> game, answers |-> <<>>, panicked |-> TRUE]
                    [] OTHER -> done(game, <<fen_error_answer(game_result)>>)
         [] start_position_mode = "None" -> done(game, <<"Missing subcommand after 'position'.">>)
         [] OTHER -> done(game, <<<<"Invalid subcommand", start_position_mode>>>>)

\* seven empty squares and a Light Two tile on a rank of seven squares
OVERFULL_FEN_STRING == <<"7", "Z">>

\* the argument lists fed to "position"
PositionArgs ==
    {<<"startpos">>,
     <<"fen", INITIAL_FEN_STRING>>,
     <<"fen", SKIRMISH_FEN_STRING, MovesWord, <<"x">>>>,
     <<"fen", <<"7", "/", "7", "/">>, <<"7", "/", "7", "/", "7", "/", "7", "/", "7", "/", "7", "/", "7">>>>,
     <<"fen", <<"6", "/">>>>,
     <<"fen", <<"6", "2">>>>,
     <<"fen", <<"8">>>>,
     <<"fen", <<"7", "/", "7", "/", "7", "/", "7", "/", "7", "/", "7", "/", "7", "/", "7", "/", "7", "/", "7">>>>,
     <<"fen", OVERFULL_FEN_STRING>>,
     <<"moves">>,
     <<>>}

\* run_loop reads "ubi"
UbiCommand ==
    /\ ubi_running
    /\ n_commands < MaxCommands
    /\ ubi_input' = [cmd |-> "ubi"]
    /\ ubi_state' = ubi(ubi_state).state
    /\ ubi_output' = ubi_output \o ubi(ubi_state).answers
    /\ n_commands' = n_commands + 1
    /\ UNCHANGED ubi_running
    /\ UNCHANGED game_vars
    /\ UNCHANGED fen_vars
    /\ UNCHANGED rule_vars

\* run_loop reads "isready"
IsReadyCommand ==
    /\ ubi_running
    /\ n_commands < MaxCommands
    /\ ubi_input' = [cmd |-> "isready"]
    /\ ubi_state' = isready(ubi_state).state
    /\ ubi_output' = ubi_output \o isready(ubi_state).answers
    /\ n_commands' = n_commands + 1
    /\ UNCHANGED ubi_running
    /\ UNCHANGED game_vars
    /\ UNCHANGED fen_vars
    /\ UNCHANGED rule_vars

\* run_loop reads "position" and the arguments args; a panic of the call ends
\* the loop before anything is written
PositionCommand ==
    /\ ubi_running
    /\ n_commands < MaxCommands
    /\ \E args \in PositionArgs :
          \E r \in {position(ubi_state, [board |-> board, current_player |-> current_player], args)} :
             /\ ubi_input' = [cmd |-> "position", args |-> args]
             /\ ubi_state' = r.state
             /\ board' = r.game.board
             /\ current_player' = r.game.current_player
             /\ ubi_output' = ubi_output \o r.answers
             /\ ubi_running' = ~r.panicked
    /\ n_commands' = n_commands + 1
    /\ UNCHANGED <<setup, last_move, result, n_calls, moves>>
    /\ UNCHANGED fen_vars
    /\ UNCHANGED rule_vars

\* run_loop reads a line whose first word is no command
UnknownCommand ==
    /\ ubi_running
    /\ n_commands < MaxCommands
    /\ ubi_input' = [cmd |-> "unknown"]
    /\ ubi_output' = Append(ubi_output, "Unknown command")
    /\ n_commands' = n_commands + 1
    /\ UNCHANGED <<ubi_state, ubi_running>>
    /\ UNCHANGED game_vars
    /\ UNCHANGED fen_vars
    /\ UNCHANGED rule_vars

\* run_loop reads "exit": the process exits
ExitCommand ==
    /\ ubi_running
    /\ n_commands < MaxCommands
    /\ ubi_input' = [cmd |-> "exit"]
    /\ ubi_running' = FALSE
    /\ n_commands' = n_commands + 1
    /\ UNCHANGED <<ubi_state, ubi_output>>
    /\ UNCHANGED game_vars
    /\ UNCHANGED fen_vars
    /\ UNCHANGED rule_vars

InitUbi == FenGameInit /\ FenInit /\ RuleInit /\ UbiInit

NextUbi == UbiCommand \/ IsReadyCommand \/ PositionCommand \/ UnknownCommand \/ ExitCommand

SpecUbi == InitUbi /\ [][NextUbi]_vars

---------------------------------------------------------------------------
(* Properties *)

\* a step that is one call of make_move
IsCall == n_calls' = n_calls + 1

\* the squares other than those of cs hold after the step what they held before
UnchangedExcept(cs) ==
    \A c \in Range(squares) : c \notin cs => get_content(board', c) = get_content(board, c)

\* C1: a call of make_move with a move that is not one of the valid moves of the
\* position returns an error and leaves all 63 squares and current_player as
\* they were
C1_RejectedMoveLeavesPosition ==
    [][(IsCall /\ last_move' \notin Range(moves'))
          => /\ result' = "Err"
             /\ board' = board
             /\ current_player' = current_player]_vars

\* a forged move was submitted and refused, the board is still the one set up
C1_Witness ==
    /\ n_calls = 1
    /\ last_move \notin Range(moves)
    /\ last_move.kind \in {"Straight", "BarragoonCapture"}
    /\ result = "Err"
    /\ board = SetupBoard(setup)

\* C2: a call of make_move with a Straight move that is one of the valid moves
\* returns Ok; afterwards start is Empty, stop holds the tile, and every other
\* square and current_player are unchanged
C2_StraightMoveEffect ==
    [][(IsCall /\ last_move'.kind = "Straight" /\ last_move' \in Range(moves'))
          => /\ result' = "Ok"
             /\ get_content(board', last_move'.start) = Empty
             /\ get_content(board', last_move'.stop) = SC_Tile(last_move'.tile)
             /\ UnchangedExcept({last_move'.start, last_move'.stop})
             /\ current_player' = current_player]_vars

\* a valid Straight move was made from the start position
C2_Witness ==
    /\ n_calls = 1
    /\ setup = "new"
    /\ last_move.kind = "Straight"
    /\ last_move \in Range(moves)
    /\ result = "Ok"
    /\ get_content(board, last_move.start) = Empty
    /\ get_content(board, last_move.stop) = SC_Tile(last_move.tile)

\* C3: a call of make_move with a BarragoonCapture that is one of the valid
\* moves returns Ok; afterwards stop holds the tile, target holds the new
\* barrier, start is Empty unless target is start, and every square other than
\* start, stop and target is unchanged
C3_BarragoonCaptureEffect ==
    [][(IsCall /\ last_move'.kind = "BarragoonCapture" /\ last_move' \in Range(moves'))
          => /\ result' = "Ok"
             /\ get_content(board', last_move'.stop) = SC_Tile(last_move'.tile)
             /\ get_content(board', last_move'.target) = SC_Barragoon(last_move'.barragoon)
             /\ last_move'.target # last_move'.start
                   => get_content(board', last_move'.start) = Empty
             /\ UnchangedExcept({last_move'.start, last_move'.stop, last_move'.target})]_vars

\* a valid BarragoonCapture put the new barrier on the square the tile left
C3_Witness ==
    /\ n_calls >= 1
    /\ last_move.kind = "BarragoonCapture"
    /\ last_move \in Range(moves)
    /\ result = "Ok"
    /\ last_move.target = last_move.start
    /\ get_content(board, last_move.start) = SC_Barragoon(last_move.barragoon)
    /\ get_content(board, last_move.stop) = SC_Tile(last_move.tile)

\* C4: whenever from_fen accepts a text, encoding the decoded board with as_fen
\* and decoding that text again succeeds and gives the same board, square by
\* square
C4_FenRoundTrip ==
    fen_state.status = "Ok"
        => LET again == from_fen(as_fen(fen_state.board))
           IN /\ again.status = "Ok"
              /\ \A c \in Range(squares) :
                    get_content(again.board, c) = get_content(fen_state.board, c)

\* an accepted text that is not the text as_fen prints, with a Dark tile and a
\* barrier on the decoded board
C4_Witness ==
    /\ fen_state.status = "Ok"
    /\ fen # as_fen(fen_state.board)
    /\ \E c \in Range(squares) : get_content(fen_state.board, c) = SC_Tile(Tile("Three", "Dark"))
    /\ \E c \in Range(squares) : get_content(fen_state.board, c).kind = "Barragoon"

\* the squares of the start layout and what each holds
StartLayout(c) ==
    LET at(cs) == c \in {Coordinate(rf[1], rf[2]) : rf \in cs}
    IN CASE at({<<0, 1>>, <<0, 5>>}) -> SC_Tile(Tile("Four", "Light"))
         [] at({<<0, 2>>, <<0, 4>>, <<1, 3>>}) -> SC_Tile(Tile("Three", "Light"))
         [] at({<<1, 2>>, <<1, 4>>}) -> SC_Tile(Tile("Two", "Light"))
         [] at({<<7, 2>>, <<7, 4>>}) -> SC_Tile(Tile("Two", "Dark"))
         [] at({<<7, 3>>, <<8, 2>>, <<8, 4>>}) -> SC_Tile(Tile("Three", "Dark"))
         [] at({<<8, 1>>, <<8, 5>>}) -> SC_Tile(Tile("Four", "Dark"))
         [] at({<<3, 1>>, <<3, 5>>, <<4, 0>>, <<4, 2>>, <<4, 4>>, <<4, 6>>, <<5, 1>>, <<5, 5>>}) ->
               SC_Barragoon(Blocking)
         [] OTHER -> Empty

\* C5: from_fen stores the i-th row of the text at rank 8-i and fills files
\* from 0 upward: the game decoded from the canonical start text holds the
\* documented tiles and Blocking barriers, every other square is Empty
C5_StartLayout ==
    (setup = "new" /\ n_calls = 0)
        => /\ new.status = "Ok"
           /\ \A c \in Range(squares) : get_content(board, c) = StartLayout(c)

\* the game decoded from the start text, with the first row of the text at rank 8
C5_Witness ==
    /\ setup = "new"
    /\ n_calls = 0
    /\ get_content(board, Coordinate(8, 1)) = SC_Tile(Tile("Four", "Dark"))
    /\ get_content(board, Coordinate(1, 2)) = SC_Tile(Tile("Two", "Light"))
    /\ get_content(board, Coordinate(4, 0)) = SC_Barragoon(Blocking)

\* C6: valid_moves of the start position returns exactly 28 moves and every
\* one of them is a Straight move
C6_StartHas28StraightMoves ==
    (setup = "new" /\ n_calls = 0)
        => /\ Len(moves) = 28
           /\ \A i \in DOMAIN moves : moves[i].kind = "Straight"

\* the moves of the start position, a short and a full stride of the Light
\* Three at (1,3) among them
C6_Witness ==
    /\ setup = "new"
    /\ n_calls = 0
    /\ moves = valid_moves(new.board, "Light")
    /\ \E i \in DOMAIN moves : moves[i].start = Coordinate(1, 3) /\ moves[i].stop = Coordinate(3, 3)
    /\ \E i \in DOMAIN moves : moves[i].start = Coordinate(1, 3) /\ moves[i].stop = Coordinate(4, 3)

\* C7: the list valid_moves returns holds no two equal moves: its length is the
\* number of its distinct elements
C7_NoDuplicateMoves ==
    Cardinality(Range(moves)) = Len(moves)

\* a Three tile whose strides north-north-east and east-north-north end on the
\* same square (6,4), listed once
C7_Witness ==
    /\ setup = "Three"
    /\ n_calls = 0
    /\ Cardinality({i \in DOMAIN moves : moves[i].stop = Coordinate(6, 4)}) = 1
    /\ Cardinality({i \in DOMAIN tile_strides["Three"] :
                       CoordAdd(Coordinate(4, 3), tile_strides["Three"][i].full_delta)
                           = Coordinate(6, 4)}) > 1

\* C8: a single Light tile at (4,3) on an otherwise empty board has exactly 12
\* moves if it is a Two, 20 if it is a Three and 26 if it is a Four
C8_SingleTileMoveCounts ==
    n_calls = 0
        => /\ setup = "Two" => Len(moves) = 12
           /\ setup = "Three" => Len(moves) = 20
           /\ setup = "Four" => Len(moves) = 26

\* the lone Four tile, two of whose 28 stride destinations are off the board
C8_Witness ==
    /\ setup = "Four"
    /\ n_calls = 0
    /\ board = single_tile("Four")
    /\ Cardinality(Range(moves)) = 26
    /\ Cardinality({CoordAdd(Coordinate(4, 3), tile_strides["Four"][i].full_delta) :
                       i \in DOMAIN tile_strides["Four"]}) = 28

\* the BarragoonCapture moves of a list
CapturesOf(ms) == {i \in DOMAIN ms : ms[i].kind = "BarragoonCapture"}

\* C9: with only a Light Two at (4,3) and a Blocking barrier at (2,3) on the
\* board, valid_moves holds exactly 7 + 4 + 62*16 = 1003 distinct moves, exactly
\* 62*16 of them BarragoonCapture moves onto (2,3)
C9_TwoAndBlockingHave1003Moves ==
    (setup = "two_blocking" /\ n_calls = 0)
        => /\ Len(moves) = 7 + 4 + 62 * 16
           /\ Cardinality(Range(moves)) = 7 + 4 + 62 * 16
           /\ Cardinality(CapturesOf(moves)) = 62 * 16
           /\ \A i \in CapturesOf(moves) : moves[i].stop = Coordinate(2, 3)

\* the position of the claim, with a capture that puts the new barrier on the
\* origin square (4,3) among the moves
C9_Witness ==
    /\ setup = "two_blocking"
    /\ n_calls = 0
    /\ get_content(board, Coordinate(2, 3)) = SC_Barragoon(Blocking)
    /\ get_content(board, Coordinate(4, 3)) = LightTile("Two")
    /\ \E i \in CapturesOf(moves) : moves[i].target = Coordinate(4, 3)

\* C10: valid_moves holds no BarragoonCapture whose moving tile is a Two and
\* whose victim face is ForceTurn
C10_TwoNeverCapturesForceTurn ==
    \A i \in DOMAIN moves :
        ~(/\ moves[i].kind = "BarragoonCapture"
          /\ moves[i].tile.tile_type = "Two"
          /\ moves[i].victim = ForceTurn)

\* a Two tile whose full stride west ends on a ForceTurn barrier that a Three or
\* Four tile entering the same way could capture
C10_Witness ==
    /\ setup = "two_force_turn"
    /\ n_calls = 0
    /\ get_content(board, Coordinate(4, 3)) = LightTile("Two")
    /\ get_content(board, Coordinate(4, 1)) = SC_Barragoon(ForceTurn)
    /\ can_be_captured_from(ForceTurn, "West")
    /\ can_be_captured_by(ForceTurn, "Three")
    /\ CapturesOf(moves) = {}

\* a full stride st of the tile on square c stays on the board, passes over
\* empty squares only and ends on a barrier showing face f
FullStrideOnto(b, c, st, f) ==
    /\ st.stride.is_full_stride
    /\ \A k \in DOMAIN st.steps : contains_coordinate(CoordAdd(c, st.steps[k].position_delta))
    /\ \A k \in 1 .. (Len(st.steps) - 1) :
          get_content(b, CoordAdd(c, st.steps[k].position_delta)) = Empty
    /\ get_content(b, CoordAdd(c, st.full_delta)) = SC_Barragoon(f)

\* the squares of b that hold a tile of the given player
TilesOf(b, player) ==
    {c \in Range(squares) : get_content(b, c).kind = "Tile" /\ get_content(b, c).tile.player = player}

\* C11: can_be_captured_by is true for each of the 16 faces and 3 tile types
\* except the pair (ForceTurn, Two); and in every call the list of valid moves
\* holds, for each Three or Four tile of the player to move whose full stride
\* ends on a ForceTurn barrier over empty intermediate squares, a
\* BarragoonCapture by that tile onto that square
C11_ForceTurnCapturedByThreeAndFour ==
    [][IsCall
          => /\ \A f \in Range(all_faces), tile_type \in TileType :
                   can_be_captured_by(f, tile_type) <=> ~(f = ForceTurn /\ tile_type = "Two")
             /\ \A c \in TilesOf(board, current_player) :
                   LET tile_type == get_content(board, c).tile.tile_type
                   IN tile_type \in {"Three", "Four"}
                         => \A i \in DOMAIN tile_strides[tile_type] :
                               FullStrideOnto(board, c, tile_strides[tile_type][i], ForceTurn)
                                  => \E j \in DOMAIN moves' :
                                        /\ moves'[j].kind = "BarragoonCapture"
                                        /\ moves'[j].start = c
                                        /\ moves'[j].stop = CoordAdd(c, tile_strides[tile_type][i].full_delta)]_vars

\* a call on the board with a Three at (4,3) and a ForceTurn barrier at (4,0):
\* the list the call obtained holds a capture of that barrier by the Three
C11_Witness ==
    /\ setup = "three_force_turn"
    /\ n_calls = 1
    /\ \E i \in DOMAIN tile_strides["Three"] :
          FullStrideOnto(SetupBoard(setup), Coordinate(4, 3), tile_strides["Three"][i], ForceTurn)
    /\ \E j \in DOMAIN moves :
          /\ moves[j].kind = "BarragoonCapture"
          /\ moves[j].tile.tile_type = "Three"
          /\ moves[j].victim = ForceTurn
          /\ moves[j].stop = Coordinate(4, 0)

\* C12: full_strides returns exactly 12 strides for Two, 20 for Three and 28
\* for Four, that is 4 start directions times one straight stride plus two bends
\* per bend point, and the strides of one tile type are pairwise distinct
C12_FullStrideCounts ==
    query.op = "full_strides"
        => /\ Len(answer) = (CASE query.tile_type = "Two" -> 12
                               [] query.tile_type = "Three" -> 20
                               [] query.tile_type = "Four" -> 28)
           /\ Len(answer) = 4 * (1 + 2 * (full_stride_length(query.tile_type) - 1))
           /\ Cardinality(Range(answer)) = Len(answer)

\* the 28 full strides of a Four, a straight one and bends to either side among them
C12_Witness ==
    /\ query = [op |-> "full_strides", tile_type |-> "Four"]
    /\ Len(answer) = 28
    /\ new_straight("North", 4, TRUE) \in Range(answer)
    /\ new_bend("North", 1, "West", 3, TRUE) \in Range(answer)
    /\ new_bend("North", 1, "East", 3, TRUE) \in Range(answer)

\* C13: for every tile type and every stride of its full_strides, steps yields
\* exactly full_stride_length steps, start_length + bend_length = 2, 3 or 4 of
\* them, the last one without a leave direction
C13_StepCountIsFullStrideLength ==
    (query.op = "steps" /\ query.stride \in Range(full_strides(query.tile_type)))
        => /\ Len(answer) = full_stride_length(query.tile_type)
           /\ Len(answer) = query.stride.start_length + query.stride.bend_length
           /\ Len(answer) \in {2, 3, 4}
           /\ \A k \in DOMAIN answer : answer[k].leave_direction = "None" <=> k = Len(answer)

\* the three steps of the full stride of a Three that bends after one step
C13_Witness ==
    /\ query = [op |-> "steps", tile_type |-> "Three", stride |-> new_bend("North", 1, "West", 2, TRUE)]
    /\ Len(answer) = 3
    /\ answer[3].position_delta = PositionDelta(1, -2)

\* the file-widths a character of a position text adds to its row
CharWidth(c) ==
    IF c \in DigitChars THEN to_digit(c)
    ELSE IF c \in SquareChars THEN 1
    ELSE 0

\* the widths of the rows of the text s from character i on, the row at hand
\* having width `width` so far; a row ends at '/' or at the end of the text
RECURSIVE RowWidthsFrom(_, _, _)
RowWidthsFrom(s, i, width) ==
    IF i > Len(s) THEN {width}
    ELSE IF s[i] = "/" THEN {width} \cup RowWidthsFrom(s, i + 1, 0)
    ELSE RowWidthsFrom(s, i + 1, width + CharWidth(s[i]))

RowWidths(s) == RowWidthsFrom(s, 1, 0)

\* C14: from_fen does not accept a text in which some row sums to fewer than 7
\* file-widths, whether '/' or the end of the text ends that row: it fails
\* with UnderfullLine
C14_UnderfullRowRejected ==
    fen_state.status = "Ok" => \A width \in RowWidths(fen) : width >= BOARD_WIDTH

\* C15: for a text in which a row exceeds 7 file-widths, by a run-length digit
\* or by a tile or barrier character after the row is full, from_fen returns
\* the error OverfullLine; it does not abort with an index outside the 9x7 grid
C15_OverfullRowIsAnError ==
    (fen_state.status # "Parsing" /\ \E width \in RowWidths(fen) : width > BOARD_WIDTH)
        => fen_state.status = "OverfullLine"

\* the pairs (origin, captured square) of the BarragoonCapture moves of a list
CapturePairs(ms) == {<<ms[i].start, ms[i].stop>> : i \in CapturesOf(ms)}

\* the BarragoonCapture moves of ms from s onto t are exactly one per pair of
\* a square of `targets` and one of the 16 faces
OnePerTargetAndFace(ms, s, t, targets) ==
    LET from_s_onto_t == {i \in CapturesOf(ms) : ms[i].start = s /\ ms[i].stop = t}
    IN /\ {<<ms[i].target, ms[i].barragoon>> : i \in from_s_onto_t} = targets \X Range(all_faces)
       /\ Cardinality(from_s_onto_t) = Cardinality(targets) * Len(all_faces)

EmptySquares(b) == {c \in Range(squares) : get_content(b, c) = Empty}

\* C16 as stated: when the list of valid moves of a call holds a capture by
\* the tile on s of the barrier on t, it holds exactly one BarragoonCapture from
\* s onto t per pair of a target and one of the 16 faces, the targets being the
\* Empty squares of the position together with the captured barrier's square t
C16_TargetsAreEmptySquaresAndCapturedSquare ==
    [][IsCall
          => \A p \in CapturePairs(moves') :
                OnePerTargetAndFace(moves', p[1], p[2], EmptySquares(board) \cup {p[2]})]_vars

\* C16 amended: the targets are the Empty squares of the position together
\* with the origin square s of the capturing tile; the captured barrier's
\* square t is not a target
C16_TargetsAreEmptySquaresAndOrigin ==
    [][IsCall
          => \A p \in CapturePairs(moves') :
                /\ OnePerTargetAndFace(moves', p[1], p[2], EmptySquares(board) \cup {p[1]})
                /\ \A i \in CapturesOf(moves') : moves'[i].target # moves'[i].stop]_vars

\* a call on the board with a Two at (4,3) and a Blocking barrier at (2,3): the
\* list holds 62*16 captures onto (2,3), one of them with the origin as target
C16_Witness ==
    /\ setup = "two_blocking"
    /\ n_calls = 1
    /\ CapturePairs(moves) = {<<Coordinate(4, 3), Coordinate(2, 3)>>}
    /\ Cardinality(CapturesOf(moves)) = 62 * 16
    /\ \E i \in CapturesOf(moves) : moves[i].target = Coordinate(4, 3) /\ moves[i].barragoon = ForceTurn

\* C17: the list of valid moves never holds a BarragoonPlacement, so a call of
\* make_move with a bare BarragoonPlacement is rejected and changes nothing,
\* and a square comes to hold a barrier only as the target of an accepted
\* BarragoonCapture
C17_NoBarePlacement ==
    [][IsCall
          => /\ \A i \in DOMAIN moves' : moves'[i].kind # "BarragoonPlacement"
             /\ last_move'.kind = "BarragoonPlacement" => (result' = "Err" /\ board' = board)
             /\ \A c \in Range(squares) :
                   (get_content(board', c).kind = "Barragoon"
                       /\ get_content(board', c) # get_content(board, c))
                      => /\ result' = "Ok"
                         /\ last_move'.kind = "BarragoonCapture"
                         /\ last_move'.target = c]_vars

\* a bare placement onto an empty square was submitted and refused
C17_Witness ==
    /\ n_calls = 1
    /\ last_move = BarragoonPlacement(Coordinate(0, 0), Blocking)
    /\ get_content(SetupBoard(setup), Coordinate(0, 0)) = Empty
    /\ result = "Err"
    /\ get_content(board, Coordinate(0, 0)) = Empty

\* a move that moves a tile of the given player
MovesTileOf(board_move, player) ==
    /\ board_move.kind \in {"Straight", "TileCapture", "BarragoonCapture"}
    /\ board_move.tile.player = player

C19_CapturedFromTable ==
    query.op = "can_be_captured_from"
        => LET f == query.face
               e == query.enter_dir
           IN /\ f \in {ForceTurn, Blocking} => answer = TRUE
              /\ f = Straight("Vertical") => (answer <=> e \in {"North", "South"})
              /\ f = Straight("Horizontal") => (answer <=> e \in {"East", "West"})
              /\ f.variant = "OneWay" => (answer <=> e = f.direction)
              /\ f.variant = "OneWayTurnLeft" => (answer <=> turn_left(e) = f.direction)
              /\ f.variant = "OneWayTurnRight" => (answer <=> turn_right(e) = f.direction)
              /\ f.variant \in {"OneWayTurnLeft", "OneWayTurnRight"}
                    => Cardinality({d \in Direction : can_be_captured_from(f, d)}) = 1

\* a left turn face with exit South asked about the entry West, which a left
\* turn deflects to South
C19_Witness ==
    /\ query = [op |-> "can_be_captured_from", face |-> OneWayTurnLeft("South"), enter_dir |-> "West"]
    /\ turn_left("West") = "South"
    /\ answer = TRUE

\* C20: for all 16 pairs of directions can_be_traversed is false for Blocking;
\* true for ForceTurn exactly when leave is turn_left(enter) or
\* turn_right(enter); true for OneWayTurnLeft{d} exactly when leave is
\* turn_left(enter) and d; true for OneWayTurnRight{d} exactly when leave is
\* turn_right(enter) and d; and no pair is in more than one of the four classes
C20_TraversalOfTurnFaces ==
    query.op = "can_be_traversed"
        => LET f == query.face
               enter == query.enter_dir
               leave == query.leave_dir
           IN /\ f = Blocking => answer = FALSE
              /\ f = ForceTurn
                    => (answer <=> (leave = turn_left(enter) \/ leave = turn_right(enter)))
              /\ f.variant = "OneWayTurnLeft"
                    => (answer <=> (leave = turn_left(enter) /\ leave = f.direction))
              /\ f.variant = "OneWayTurnRight"
                    => (answer <=> (leave = turn_right(enter) /\ leave = f.direction))
              /\ class_count(enter, leave) <= 1

\* a ForceTurn barrier entered northwards and left westwards: a left turn, allowed
C20_Witness ==
    /\ query = [op |-> "can_be_traversed", face |-> ForceTurn, enter_dir |-> "North", leave_dir |-> "West"]
    /\ class_count("North", "West") = 1
    /\ answer = TRUE

\* the coordinates valid_moves() passes to get_content while it walks the
\* strides of the tiles of player: the step coordinates that passed
\* contains_coordinate, on strides whose destination passed it
ReadCoordinates(b, player) ==
    UNION {UNION {{CoordAdd(c, st.steps[k].position_delta) :
                      k \in {j \in DOMAIN st.steps :
                                contains_coordinate(CoordAdd(c, st.steps[j].position_delta))}} :
                  st \in {s \in Range(tile_strides[get_content(b, c).tile.tile_type]) :
                             contains_coordinate(CoordAdd(c, s.full_delta))}} :
           c \in TilesOf(b, player)}

\* C21: valid_moves() has no failing path: it returns a list of moves, never
\* panics, and every coordinate it passes to get_content lies within ranks 0..8
\* and files 0..6
C21_ValidMovesNeverFails ==
    /\ DOMAIN moves = 1 .. Len(moves)
    /\ \A i \in DOMAIN moves : moves[i].kind \in {"Straight", "TileCapture", "BarragoonCapture"}
    /\ \A c \in ReadCoordinates(board, current_player) :
          /\ c.rank \in Ranks
          /\ c.file \in Files
          /\ get_content(board, c) # IndexOutOfBounds

\* a tile on the edge has strides that leave the board on either side: the sum
\* wraps, is refused by contains_coordinate, and the list is returned all the same
C21_Witness ==
    /\ n_calls = 0
    /\ Len(moves) > 0
    /\ \E c \in TilesOf(board, current_player) :
          \E st \in Range(tile_strides[get_content(board, c).tile.tile_type]) :
             /\ CoordAdd(c, st.full_delta).rank >= 252
             /\ ~contains_coordinate(CoordAdd(c, st.full_delta))
             /\ \E k \in DOMAIN st.steps :
                   /\ CoordAdd(c, st.steps[k].position_delta).file >= 252
                   /\ ~contains_coordinate(CoordAdd(c, st.steps[k].position_delta))

\* a Straight barrier aligned with the axis of travel d, or the OneWay barrier of d
AlignedWith(f, d) ==
    \/ f = Straight(IF d \in {"East", "West"} THEN "Horizontal" ELSE "Vertical")
    \/ f = OneWay(d)

\* the straight stride st from c has an aligned barrier on one intermediate cell,
\* its other intermediate cells are empty and its destination is empty
PassageStride(b, c, st) ==
    /\ st.stride.bend_length = 0
    /\ contains_coordinate(CoordAdd(c, st.full_delta))
    /\ get_content(b, CoordAdd(c, st.full_delta)) = Empty
    /\ \E k \in 1 .. (Len(st.steps) - 1) :
          /\ get_content(b, CoordAdd(c, st.steps[k].position_delta)).kind = "Barragoon"
          /\ AlignedWith(get_content(b, CoordAdd(c, st.steps[k].position_delta)).face,
                         st.stride.start_direction)
          /\ \A j \in (1 .. (Len(st.steps) - 1)) \ {k} :
                get_content(b, CoordAdd(c, st.steps[j].position_delta)) = Empty

\* C22: a straight stride that crosses a Straight barrier aligned with its axis,
\* or a OneWay barrier of its direction, over otherwise empty cells to an empty
\* destination yields the Straight move to that destination in valid_moves()
C22_AlignedBarrierIsPassed ==
    n_calls = 0 =>
       \A c \in TilesOf(board, current_player) :
          \A st \in Range(tile_strides[get_content(board, c).tile.tile_type]) :
             PassageStride(board, c, st)
                => StraightMove(c, CoordAdd(c, st.full_delta), get_content(board, c).tile) \in Range(moves)

Abs(x) == IF x < 0 THEN -x ELSE x

\* |stop.rank - start.rank| + |stop.file - start.file|
TravelLength(board_move) ==
    Abs(board_move.stop.rank - board_move.start.rank) + Abs(board_move.stop.file - board_move.start.file)

\* the journeys of a list of moves: start, stop, moving tile and kind
Journeys(ms) ==
    {[start |-> m.start, stop |-> m.stop, tile |-> m.tile, kind |-> m.kind] : m \in Range(ms)}

\* C23 as stated: every move of valid_moves() is as long as full_stride_length()
\* of the moving tile's type and ends where one of its full strides ends
C23_OnlyFullStrides ==
    \A m \in Journeys(moves) :
       /\ TravelLength(m) = full_stride_length(m.tile.tile_type)
       /\ \E stride \in Range(full_strides(m.tile.tile_type)) :
             m.stop = CoordAdd(m.start, full_delta(stride))

\* C23: every move of valid_moves() is as long as full_stride_length() or
\* short_stride_length() of the moving tile's type and ends where one of its
\* full or short strides ends; every capture is as long as full_stride_length()
C23_FullOrShortStrides ==
    \A m \in Journeys(moves) :
       /\ TravelLength(m) \in {full_stride_length(m.tile.tile_type), short_stride_length(m.tile.tile_type)}
       /\ \E st \in Range(tile_strides[m.tile.tile_type]) :
             m.stop = CoordAdd(m.start, st.full_delta)
       /\ m.kind # "Straight" => TravelLength(m) = full_stride_length(m.tile.tile_type)

\* the Three tile's list holds a move of three cells, a move of two cells and a capture
C23_Witness ==
    /\ setup = "three_force_turn"
    /\ n_calls = 0
    /\ StraightMove(Coordinate(4, 3), Coordinate(7, 3), Tile("Three", "Light")) \in Range(moves)
    /\ StraightMove(Coordinate(4, 3), Coordinate(6, 3), Tile("Three", "Light")) \in Range(moves)
    /\ \E m \in Journeys(moves) : m.kind = "BarragoonCapture" /\ TravelLength(m) = 3

\* some stride of the moving tile ends on the move's stop and has no tile of
\* either player on its intermediate cells on b; full_only asks for a full stride
ReachedPastNoTile(b, start, stop, tile_type, full_only) ==
    \E st \in Range(tile_strides[tile_type]) :
       /\ full_only => st.stride.is_full_stride
       /\ CoordAdd(start, st.full_delta) = stop
       /\ \A k \in 1 .. (Len(st.steps) - 1) :
             get_content(b, CoordAdd(start, st.steps[k].position_delta)).kind # "Tile"

NoJumpAndCaptureAtEnd(b, player, ms) ==
    /\ \A m \in {x \in Range(ms) : x.kind = "TileCapture"} :
          /\ get_content(b, m.stop) = SC_Tile(m.victim)
          /\ m.victim.player # player
          /\ TravelLength(m) = full_stride_length(m.tile.tile_type)
          /\ ReachedPastNoTile(b, m.start, m.stop, m.tile.tile_type, TRUE)
    /\ \A m \in {x \in Journeys(ms) : x.kind = "Straight"} :
          ReachedPastNoTile(b, m.start, m.stop, m.tile.tile_type, FALSE)

\* C24: in the list a call obtains from valid_moves(), every TileCapture has a
\* victim of the opponent standing on stop, is as long as the mover's full
\* stride and is reached by a full stride with no tile on its intermediate
\* cells; every Straight move is reached by a stride with no tile on its
\* intermediate cells
C24_NoJumpAndCaptureAtEnd ==
    [][IsCall => NoJumpAndCaptureAtEnd(board, current_player, moves')]_vars

\* a call in the skirmish position, where the list holds a capture of a Dark
\* tile and a call that carries it out
C24_Witness ==
    /\ setup = "skirmish"
    /\ n_calls = 1
    /\ last_move.kind = "TileCapture"
    /\ result = "Ok"
    /\ last_move \in Range(moves)
    /\ get_content(SetupBoard(setup), last_move.stop) = SC_Tile(last_move.victim)
    /\ last_move.victim.player = "Dark"

\* C25: in the steps of every full or short stride, leave_direction is absent on
\* the final step and on no other, on every earlier step it is the
\* enter_direction of the following step, and the step on the bend cell of a bend
\* stride enters in start_direction and leaves in bend_direction
C25_LeaveDirections ==
    query.op = "steps" =>
       /\ Len(answer) >= 1
       /\ \A k \in DOMAIN answer : (answer[k].leave_direction = "None") <=> (k = Len(answer))
       /\ \A k \in 1 .. (Len(answer) - 1) : answer[k].leave_direction = answer[k + 1].enter_direction
       /\ query.stride.bend_length > 0 =>
             /\ answer[query.stride.start_length].enter_direction = query.stride.start_direction
             /\ answer[query.stride.start_length].leave_direction = query.stride.bend_direction

\* the steps of the Four tile's stride two cells north, then two cells west
C25_Witness ==
    /\ query = [op |-> "steps", tile_type |-> "Four", stride |-> new_bend("North", 2, "West", 2, TRUE)]
    /\ Len(answer) = 4
    /\ answer[2].enter_direction = "North"
    /\ answer[2].leave_direction = "West"
    /\ answer[3].enter_direction = "West"
    /\ answer[4].leave_direction = "None"

\* the step coordinates the walk reads when an off-board step is skipped
SkippingWalk(new_coordinates) == SelectSeq(new_coordinates, contains_coordinate)

\* the step coordinates the walk reads when an off-board step ends the stride
RECURSIVE TerminatingWalk(_)
TerminatingWalk(new_coordinates) ==
    IF new_coordinates = <<>> THEN <<>>
    ELSE IF ~contains_coordinate(Head(new_coordinates)) THEN <<>>
    ELSE <<Head(new_coordinates)>> \o TerminatingWalk(Tail(new_coordinates))

\* C26: for every origin on the board and every stride of any tile type whose
\* full_delta destination is on the board, every step is on the board and the
\* last step lands on the destination, so the walk that skips an off-board step
\* and the walk that ends on it read the same squares
C26_StepsStayOnBoard ==
    (query.op = "coordinates" /\ contains_coordinate(answer.coordinate_to_cover)) =>
       /\ \A k \in DOMAIN answer.new_coordinates :
             /\ contains_coordinate(answer.new_coordinates[k])
             /\ answer.new_coordinates[k].rank \in Ranks
             /\ answer.new_coordinates[k].file \in Files
       /\ answer.new_coordinates[Len(answer.new_coordinates)] = answer.coordinate_to_cover
       /\ SkippingWalk(answer.new_coordinates) = answer.new_coordinates
       /\ TerminatingWalk(answer.new_coordinates) = SkippingWalk(answer.new_coordinates)

\* the Four tile's stride two cells north, then two cells east, from the corner (0,0)
C26_Witness ==
    /\ query = [op |-> "coordinates", origin |-> Coordinate(0, 0), tile_type |-> "Four",
                stride |-> new_bend("North", 2, "East", 2, TRUE)]
    /\ answer.coordinate_to_cover = Coordinate(2, 2)
    /\ answer.new_coordinates =
          <<Coordinate(1, 0), Coordinate(2, 0), Coordinate(2, 1), Coordinate(2, 2)>>

\* C27: for every coordinate c of the board and every displacement d with
\* components in -4..4, contains_coordinate(c + d) is true exactly when
\* 0 <= c.rank + d.rank_delta < 9 and 0 <= c.file + d.file_delta < 7 as integers;
\* a negative sum is cast to a value of at least 252 and is rejected
C27_WrappedSumIsRejected ==
    query.op = "add" =>
       LET rank_sum == query.coordinate.rank + query.delta.rank_delta
           file_sum == query.coordinate.file + query.delta.file_delta
       IN /\ contains_coordinate(answer)
                <=> (0 <= rank_sum /\ rank_sum < 9 /\ 0 <= file_sum /\ file_sum < 7)
          /\ rank_sum < 0 => (answer.rank >= 252 /\ answer.rank <= 255)
          /\ file_sum < 0 => (answer.file >= 252 /\ answer.file <= 255)
          /\ (rank_sum < 0 \/ file_sum < 0) => ~contains_coordinate(answer)

\* one step south-east of the corner (0,0): the rank wraps to 255
C27_Witness ==
    /\ query = [op |-> "add", coordinate |-> Coordinate(0, 0), delta |-> PositionDelta(-1, 1)]
    /\ answer = Coordinate(255, 1)
    /\ ~contains_coordinate(answer)

\* the moves pushed when every stride of every tile of player whose destination
\* is on the board is walked, without the covered_squares check
AllStrideMoves(b, player) ==
    UNION {UNION {Range(w.moves) :
                  w \in {walk_steps(b, c, get_content(b, c).tile, st.stride, st.steps, 1) :
                            st \in {s \in Range(tile_strides[get_content(b, c).tile.tile_type]) :
                                       contains_coordinate(CoordAdd(c, s.full_delta))}}} :
           c \in TilesOf(b, player)}

\* the move of test game_denies_invalid_move, which every caller may submit
DeniedMove == StraightMove(Coordinate(1, 2), Coordinate(8, 2), Tile("Two", "Light"))

\* C28: the set of moves a call obtains from valid_moves() is the set obtained
\* by walking every stride of every tile of the player to move without the
\* covered check. The list depends on the position only, so each position is
\* compared once: in the call that submits DeniedMove
C28_CoveredSkipLosesNoMove ==
    [][(IsCall /\ last_move' = DeniedMove)
          => Range(moves') = AllStrideMoves(board, current_player)]_vars

\* a call on the lone Three tile: two strides end on (5,5), one Straight move
\* to it is listed, and the list holds as many moves as the walk of all strides
C28_Witness ==
    /\ setup = "Three"
    /\ n_calls = 1
    /\ last_move = DeniedMove
    /\ Cardinality({st \in Range(tile_strides["Three"]) :
                       CoordAdd(Coordinate(4, 3), st.full_delta) = Coordinate(5, 5)}) >= 2
    /\ Cardinality({i \in DOMAIN moves : moves[i].stop = Coordinate(5, 5)}) = 1
    /\ Len(moves) = Cardinality(AllStrideMoves(SetupBoard(setup), "Light"))

\* the squares of b that hold a Barragoon
BarrierSquares(b) == {c \in Range(squares) : get_content(b, c).kind = "Barragoon"}

IsCommand == n_commands' = n_commands + 1

\* the number of lines of out that are "ubiok"
UbiOkCount(out) == Cardinality({i \in DOMAIN out : out[i] = "ubiok"})

\* C30: the command loop writes "ubiok" at most once; a ubi command is answered,
\* with the id line and "ubiok", only in state Unitialized; isready is answered
\* with "readyok" exactly when the state is not Unitialized; a position command
\* moves the state to PositionSet from any state, also when the FEN text is
\* rejected, and from then on the state stays PositionSet and no ubi command is
\* answered
C30_UbiOkOnceAndPositionSets ==
    [][IsCommand =>
          /\ UbiOkCount(ubi_output') <= 1
          /\ ubi_input'.cmd = "ubi" =>
                ubi_output' = ubi_output \o (IF ubi_state = "Unitialized"
                                             THEN <<id_line, "ubiok">> ELSE <<>>)
          /\ ubi_input'.cmd = "isready" =>
                ubi_output' = ubi_output \o (IF ubi_state # "Unitialized"
                                             THEN <<"readyok">> ELSE <<>>)
          /\ ubi_input'.cmd = "position" => ubi_state' = "PositionSet"
          /\ ubi_state = "PositionSet" =>
                /\ ubi_state' = "PositionSet"
                /\ ubi_input'.cmd = "ubi" => ubi_output' = ubi_output]_vars

====
